---- MODULE Spec2Model ----
(***************************************************************************)
(* Model of ATOSingleTrain (src/ato_simulator/ato.py) driven by the loop   *)
(* of src/example.py.                                                      *)
(*                                                                         *)
(* Python floats are exact rationals in a normal form, so that equal      *)
(* values are equal states; rounding, inf and nan are not modelled.        *)
(* Arrays live in a heap of objects and are passed by reference, as numpy  *)
(* arrays are.  Dictionaries are sets of <<key, value>> pairs.             *)
(***************************************************************************)
EXTENDS Integers, Sequences, FiniteSets, TLC

VARIABLES train, dt, heap, state, action, track_info, journey_profile,
          segment_profile, info, i, pc, calls

vars == <<train, dt, heap, state, action, track_info, journey_profile,
          segment_profile, info, i, pc, calls>>

-----------------------------------------------------------------------------
(* Bounds of the model *)

\* iterations of the driving loop (range(100) in example.py)
MaxSteps == 3
\* the loop goes on only from states whose numerators and denominators
\* are within these magnitudes
MaxNum == 4000
MaxDen == 400

-----------------------------------------------------------------------------
(* Exact rational arithmetic *)
(* A number is <<w, n, d>>, the value w + n/d with w an integer,           *)
(* 0 <= n < d and n/d in lowest terms (d = 1 when n = 0).                  *)
(* An operator that uses an operand more than once first binds it to its   *)
(* value, { e : p \in {x} }, so that the operand is evaluated once.        *)

Abs(n) == IF n < 0 THEN -n ELSE n

RECURSIVE Gcd(_, _)
Gcd(m, n) == IF n = 0 THEN m ELSE Gcd(n, m % n)

\* w + n/d for any integers w, n and d > 0, in normal form
Norm(w, n, d) ==
    LET r == n % d
        k == Gcd(r, d)
    IN  <<w + (n \div d), r \div k, d \div k>>

\* the fraction n/d, d # 0
Q(n, d) == IF d < 0 THEN Norm(0, -n, -d) ELSE Norm(0, n, d)

Whole(p) == p[1]
Num(p) == p[2]
Den(p) == p[3]

Zero == <<0, 0, 1>>
One == <<1, 0, 1>>

Add(x, y) ==
    CHOOSE sum \in
        { LET k == Gcd(Den(p), Den(q))
              dp == Den(p) \div k
              dq == Den(q) \div k
          IN  Norm(Whole(p) + Whole(q), Num(p) * dq + Num(q) * dp, dp * Den(q))
          : p \in {x}, q \in {y} } : TRUE

Neg(x) == CHOOSE neg \in { Norm(-Whole(p), -Num(p), Den(p)) : p \in {x} } : TRUE

Sub(p, q) == Add(p, Neg(q))

\* the integer m times the fraction n/d
Scale(m, n, d) ==
    LET k == Gcd(Abs(m), d)
    IN  Norm(0, (m \div k) * n, d \div k)

Mul(x, y) ==
    CHOOSE product \in
        { LET k1 == Gcd(Num(p), Den(q))
              k2 == Gcd(Num(q), Den(p))
          IN  Add(Add(<<Whole(p) * Whole(q), 0, 1>>,
                      Add(Scale(Whole(p), Num(q), Den(q)),
                          Scale(Whole(q), Num(p), Den(p)))),
                  Norm(0, (Num(p) \div k1) * (Num(q) \div k2),
                          (Den(p) \div k2) * (Den(q) \div k1)))
          : p \in {x}, q \in {y} } : TRUE

\* 1/q, q # 0
Inverse(y) ==
    CHOOSE inverse \in { Q(Den(q), Whole(q) * Den(q) + Num(q)) : q \in {y} } : TRUE

\* true division; the divisor is never zero in the model
Div(p, q) == Mul(p, Inverse(q))

\* m/n < p/q for positive integers, by comparing the continued fractions
RECURSIVE FracLt(_, _, _, _)
FracLt(m, n, p, q) ==
    IF (m \div n) # (p \div q) THEN (m \div n) < (p \div q)
    ELSE IF p % q = 0 THEN FALSE
    ELSE IF m % n = 0 THEN TRUE
    ELSE FracLt(q, p % q, n, m % n)

Lt(x, y) ==
    \E p \in {x}, q \in {y} :
        IF Whole(p) # Whole(q) THEN Whole(p) < Whole(q)
        ELSE IF Num(q) = 0 THEN FALSE
        ELSE IF Num(p) = 0 THEN TRUE
        ELSE FracLt(Num(p), Den(p), Num(q), Den(q))

Le(p, q) == ~Lt(q, p)

\* Python's builtins: max(x, y) is y only if y > x, min(x, y) is y only if y < x
max(x, y) == CHOOSE m \in { IF Lt(p, q) THEN q ELSE p : p \in {x}, q \in {y} } : TRUE
min(x, y) == CHOOSE m \in { IF Lt(q, p) THEN q ELSE p : p \in {x}, q \in {y} } : TRUE
abs(x) == CHOOSE m \in { IF Lt(p, Zero) THEN Neg(p) ELSE p : p \in {x} } : TRUE

\* np.sin, needed at the only argument the code passes
sin(p) == CASE p = Zero -> Zero

-----------------------------------------------------------------------------
(* ATOSingleTrain *)

ATOSingleTrain(a, b, c, mass, traction, braking) ==
    [a_davis_formula |-> a, b_davis_formula |-> b, c_davis_formula |-> c,
     train_mass |-> mass, maximum_traction_force |-> traction,
     maximum_braking_force |-> braking]

g == Q(981, 100)

\* mutant: the linear term without abs(), as in the docstring's w(v)
aero_drag_and_rolling_res_signed(self, velocity) ==
    Add(Add(self.a_davis_formula, Mul(self.b_davis_formula, velocity)),
        Mul(self.c_davis_formula, Mul(velocity, velocity)))

aero_drag_and_rolling_res(self, velocity) ==
    Add(Add(self.a_davis_formula, Mul(self.b_davis_formula, abs(velocity))),
        Mul(self.c_davis_formula, Mul(velocity, velocity)))

gradient_force(self, gradient) ==
    Mul(Mul(self.train_mass, g), sin(gradient))

curvature_force(self, k_curvature, curvature_radius) ==
    Div(Mul(Mul(self.train_mass, g), k_curvature), curvature_radius)

\* mutant: the bounds of the action are excluded
check_inputs_strict(shape, act, delta_t) ==
    IF ~(Lt(Q(-1, 1), act) /\ Lt(act, One))
        THEN "Action must be in the range [-1, 1]"
    ELSE IF shape # <<2>>
        THEN "State must be a 2D array with shape (2,)"
    ELSE IF ~Lt(Zero, delta_t)
        THEN "Time step must be positive"
    ELSE ""

\* the three assertions, in order; "" when all pass
check_inputs(shape, act, delta_t) ==
    IF ~(Le(Q(-1, 1), act) /\ Le(act, One))
        THEN "Action must be in the range [-1, 1]"
    ELSE IF shape # <<2>>
        THEN "State must be a 2D array with shape (2,)"
    ELSE IF ~Lt(Zero, delta_t)
        THEN "Time step must be positive"
    ELSE ""

\* mutant: the speed limit is looked up in journey_profile
track_data_from_profile(ti, jp, sp) ==
    [gradient |-> Zero, k_curvature |-> Zero, curvature_radius |-> One,
     max_speed |-> IF \E e \in jp : e[1] = "max_speed"
                   THEN (CHOOSE e \in jp : e[1] = "max_speed")[2]
                   ELSE Div(Q(100, 1), Q(36, 10))]

\* the data extracted from track_info, journey_profile and segment_profile
track_data(ti, jp, sp) ==
    [gradient |-> Zero, k_curvature |-> Zero, curvature_radius |-> One,
     max_speed |-> Div(Q(100, 1), Q(36, 10))]

\* mutant: the traction force is used for braking too
input_force_traction_only(self, act) ==
    Mul(act, self.maximum_traction_force)

\* mutant: the two maximum forces are swapped
input_force_swapped(self, act) ==
    IF Le(Zero, act) THEN Mul(act, self.maximum_braking_force)
                     ELSE Mul(act, self.maximum_traction_force)

input_force(self, act) ==
    IF Le(Zero, act) THEN Mul(act, self.maximum_traction_force)
                     ELSE Mul(act, self.maximum_braking_force)

\* mutant: the position is advanced with the new velocity
euler_update_new_velocity(st, acceleration, delta_t) ==
    << Add(st[1], Mul(Add(Mul(acceleration, delta_t), st[2]), delta_t)),
       Add(Mul(acceleration, delta_t), st[2]) >>

\* the two entries of np.array([...]) of the Euler update
euler_update(st, acceleration, delta_t) ==
    << Add(st[1], Mul(st[2], delta_t)),
       Add(Mul(acceleration, delta_t), st[2]) >>

\* mutant: the new values are written into the array that was passed
new_array_in_place(h, ref, data) == [heap |-> [h EXCEPT ![ref] = data], ref |-> ref]

\* np.array([...]): a new object on the heap; the argument object is only read
new_array(h, ref, data) == [heap |-> Append(h, data), ref |-> Len(h) + 1]

\* mutant: the overshoot is taken after the clamp
speed_overshoot_after_clamp(velocity, max_speed) ==
    max(Zero, Sub(min(velocity, max_speed), max_speed))

speed_overshoot(velocity, max_speed) == max(Zero, Sub(velocity, max_speed))

\* mutant: no clamp
speed_constraint_none(velocity, max_speed) == velocity

\* mutant: the velocity is clamped at zero too
speed_constraint_floor(velocity, max_speed) == max(Zero, min(velocity, max_speed))

speed_constraint(velocity, max_speed) == min(velocity, max_speed)

step(self, h, ref, act, delta_t, ti, jp, sp) ==
    LET failed == check_inputs(<<Len(h[ref])>>, act, delta_t)
    IN  IF failed # ""
        THEN [raised |-> TRUE, message |-> failed, heap |-> h]
        ELSE
        LET st == h[ref]
            td == track_data(ti, jp, sp)
            f_in == input_force(self, act)
            f_grad == gradient_force(self, td.gradient)
            f_curv == curvature_force(self, td.k_curvature, td.curvature_radius)
            f_res == aero_drag_and_rolling_res(self, st[2])
            total_force == Sub(Sub(Sub(f_in, f_grad), f_curv), f_res)
            acceleration == Div(total_force, self.train_mass)
            made == new_array(h, ref, euler_update(st, acceleration, delta_t))
            new_state == made.ref
            unclamped == made.heap[new_state][2]
            overshoot == speed_overshoot(unclamped, td.max_speed)
            h2 == [made.heap EXCEPT
                     ![new_state][2] = speed_constraint(unclamped, td.max_speed)]
        IN  [raised |-> FALSE,
             heap |-> h2,
             new_state |-> new_state,
             info |-> [gradient |-> td.gradient,
                       curvature |-> td.k_curvature,
                       curvature_radius |-> td.curvature_radius,
                       max_speed |-> td.max_speed,
                       speed_overshoot |-> overshoot,
                       aero_drag_and_rolling_res |-> f_res,
                       gradient_force |-> f_grad,
                       curvature_force |-> f_curv,
                       input_force |-> f_in]]

-----------------------------------------------------------------------------
(* The driving loop *)

ExampleTrain ==
    ATOSingleTrain(Q(1, 2), Q(1, 10), Q(1, 100),
                   Q(100000, 1), Q(500000, 1), Q(500000, 1))
ExampleDt == Q(1, 100)
ExampleState == <<Zero, Zero>>

\* no resistance
CoastTrain == ATOSingleTrain(Zero, Zero, Zero, One, Q(20, 1), Q(10, 1))
\* constant, linear and quadratic resistance
DavisTrain ==
    ATOSingleTrain(Q(1, 2), Q(1, 2), Q(1, 100), Q(2, 1), Q(40, 1), Q(30, 1))
\* resistance above the maximum traction force
WeakTrain == ATOSingleTrain(Q(25, 1), Zero, Zero, One, Q(20, 1), Q(20, 1))

Trains == {CoastTrain, DavisTrain, WeakTrain}

\* initial states: at rest, above the speed limit, moving backwards, and two
\* arrays that are no (position, velocity) pair
States == { <<Zero, Zero>>, <<Zero, Q(30, 1)>>, <<Q(5, 1), Q(-3, 1)>>,
            <<Zero>>, <<Zero, Zero, Zero>> }

TimeSteps == { One, Q(1, 2), Zero, Q(-1, 1) }

Actions == { Q(-1, 1), Q(-1, 2), Zero, One, Q(3, 2), Q(-2, 1) }

\* the three dictionaries of one call
Contexts ==
    { <<{}, {}, {}>>,
      <<{<<"gradient", Q(1, 100)>>}, {<<"max_speed", Q(10, 1)>>},
        {<<"max_speed", Q(5, 1)>>}>> }

\* the loop is followed only from arrays whose entries are within the
\* bounds, so that every product of the next step fits TLC's integers
Representable(arr) ==
    \A k \in DOMAIN arr : Abs(Whole(arr[k])) <= MaxNum /\ Den(arr[k]) <= MaxDen

Init ==
    /\ \E conf \in (Trains \X States \X TimeSteps)
                     \cup {<<ExampleTrain, ExampleState, ExampleDt>>} :
          /\ train = conf[1]
          /\ heap = <<conf[2]>>
          /\ dt = conf[3]
    /\ state = 1
    /\ action = Zero
    /\ track_info = {}
    /\ journey_profile = {}
    /\ segment_profile = {}
    /\ info = {}
    /\ i = 0
    /\ pc = "loop"
    /\ calls = <<>>

\* what one call leaves behind, for the properties over all calls of a run
CallRecord(act, ctx, r) ==
    [self |-> train, state |-> heap[state], action |-> act, dt |-> dt,
     track_info |-> ctx[1], journey_profile |-> ctx[2],
     segment_profile |-> ctx[3],
     ret |-> IF r.raised
             THEN [raised |-> TRUE, message |-> r.message]
             ELSE [raised |-> FALSE, new_state |-> r.heap[r.new_state],
                   info |-> r.info]]

\* one iteration of the loop: the action is computed and
\* state, info = train.step(state, action, dt, {}, {}, {}) returns
StepReturns ==
    /\ pc = "loop"
    /\ i < MaxSteps
    /\ Representable(heap[state])
    /\ \E act \in Actions, ctx \in Contexts :
          \E r \in {step(train, heap, state, act, dt, ctx[1], ctx[2], ctx[3])} :
              /\ ~r.raised
              /\ action' = act
              /\ track_info' = ctx[1]
              /\ journey_profile' = ctx[2]
              /\ segment_profile' = ctx[3]
              /\ heap' = r.heap
              /\ state' = r.new_state
              /\ info' = r.info
              /\ calls' = Append(calls, CallRecord(act, ctx, r))
    /\ i' = i + 1
    /\ UNCHANGED <<train, dt, pc>>

\* one iteration of the loop in which step fails an assertion: the
\* exception ends the program
StepRaises ==
    /\ pc = "loop"
    /\ i < MaxSteps
    /\ Representable(heap[state])
    /\ \E act \in Actions, ctx \in Contexts :
          \E r \in {step(train, heap, state, act, dt, ctx[1], ctx[2], ctx[3])} :
              /\ r.raised
              /\ action' = act
              /\ track_info' = ctx[1]
              /\ journey_profile' = ctx[2]
              /\ segment_profile' = ctx[3]
              /\ heap' = r.heap
              /\ calls' = Append(calls, CallRecord(act, ctx, r))
    /\ pc' = "raised"
    /\ UNCHANGED <<train, dt, state, info, i>>

\* range(100) is exhausted
LoopExit ==
    /\ pc = "loop"
    /\ i = MaxSteps
    /\ pc' = "done"
    /\ UNCHANGED <<train, dt, heap, state, action, track_info,
                   journey_profile, segment_profile, info, i, calls>>

Next == StepReturns \/ StepRaises \/ LoopExit

Spec == Init /\ [][Next]_vars

-----------------------------------------------------------------------------
(* Properties.  They are stated over the record of the calls of a run:     *)
(* calls[k].state is the array passed to call k and calls[k].ret is what   *)
(* the call returned.                                                      *)

Limit == Q(250, 9)

Ok(k) == ~calls[k].ret.raised

\* the call that has just ended.  calls only grows, one call at a time, so
\* every call of a run is the latest one in the state that follows it: an
\* invariant over Latest holds of every call of every run.
Latest == DOMAIN calls \ (1 .. Len(calls) - 1)

\* the fields of call k that the properties compare
X(k) == calls[k].state[1]
V(k) == calls[k].state[2]
NewX(k) == calls[k].ret.new_state[1]
NewV(k) == calls[k].ret.new_state[2]
Overshoot(k) == calls[k].ret.info.speed_overshoot

\* a + b*|v| + c*v^2 at the velocity passed to call k
Resistance(k) ==
    LET m == calls[k].self
        v == IF Lt(V(k), Zero) THEN Neg(V(k)) ELSE V(k)
    IN  Add(m.a_davis_formula,
            Add(Mul(m.b_davis_formula, v), Mul(m.c_davis_formula, Mul(v, v))))

\* action * maximum force of the branch the sign of the action selects
Commanded(k) ==
    LET m == calls[k].self
    IN  IF Lt(calls[k].action, Zero)
        THEN Mul(calls[k].action, m.maximum_braking_force)
        ELSE Mul(calls[k].action, m.maximum_traction_force)

\* v + ((input_force - gradient_force - curvature_force - resistance) / mass) * dt
EulerVelocity(k) ==
    LET r == calls[k].ret.info
        net == Sub(Sub(Sub(Commanded(k), r.gradient_force), r.curvature_force),
                   Resistance(k))
    IN  Add(V(k), Mul(Div(net, calls[k].self.train_mass), calls[k].dt))

\* C1: every velocity that step returns is at most the speed limit, so the
\* state of the driving loop has velocity <= limit after the first step,
\* whatever the initial velocity and the actions were.
SpeedLimitInvariant ==
    /\ \A k \in Latest : Ok(k) => Le(NewV(k), Limit)
    /\ i >= 1 => Le(heap[state][2], Limit)

\* a call that started above the limit returned, and the loop went on
SpeedLimitWitness ==
    /\ i >= 2
    /\ Lt(Limit, V(1))
    /\ \E k \in DOMAIN calls : k > 1 /\ calls[k].action = One /\ Ok(k)

\* C2: when the unclamped Euler velocity u exceeds the limit L, the returned
\* velocity is L and speed_overshoot is u - L; otherwise the returned
\* velocity is u and speed_overshoot is 0; always velocity + overshoot = u
\* and overshoot >= 0.
ClampExactness ==
    \A k \in Latest : Ok(k) =>
        LET u == EulerVelocity(k)
        IN  /\ Lt(Limit, u) => NewV(k) = Limit /\ Overshoot(k) = Sub(u, Limit)
            /\ Le(u, Limit) => NewV(k) = u /\ Overshoot(k) = Zero
            /\ Add(NewV(k), Overshoot(k)) = u
            /\ Le(Zero, Overshoot(k))

\* one call was clamped and another one of the same run was not
ClampWitness ==
    /\ \E k \in DOMAIN calls : Ok(k) /\ Lt(Limit, EulerVelocity(k))
    /\ \E k \in DOMAIN calls : Ok(k) /\ Lt(EulerVelocity(k), Limit)

\* the precondition of step
ValidInputs(k) ==
    /\ Le(Q(-1, 1), calls[k].action) /\ Le(calls[k].action, One)
    /\ Len(calls[k].state) = 2
    /\ Lt(Zero, calls[k].dt)

\* C3: a call whose action is outside [-1, 1], whose state is no 2-element
\* pair or whose dt is <= 0 raises, returns neither a state nor diagnostics
\* and leaves nothing computed behind; every other call, the actions -1 and
\* 1 included, returns a state.
PreconditionFailure ==
    /\ \A k \in Latest :
          /\ calls[k].ret.raised <=> ~ValidInputs(k)
          /\ calls[k].ret.raised => DOMAIN calls[k].ret = {"raised", "message"}
          /\ Ok(k) => Len(calls[k].ret.new_state) = 2
    /\ pc = "raised" =>
          /\ calls[Len(calls)].ret.raised
          /\ Len(heap) = Len(calls)
          /\ state = Len(calls)
          /\ info = IF Len(calls) = 1 THEN {}
                    ELSE calls[Len(calls) - 1].ret.info

\* the boundary actions -1 and 1 were accepted, then action 3/2 was refused
PreconditionWitness ==
    /\ pc = "raised"
    /\ \E j, k \in DOMAIN calls :
          /\ calls[j].action = Q(-1, 1) /\ Ok(j)
          /\ calls[k].action = One /\ Ok(k)
    /\ calls[Len(calls)].action = Q(3, 2)

\* C4: input_force is action * maximum_traction_force for action >= 0 and
\* action * maximum_braking_force for action < 0; with maximum forces >= 0
\* it has the sign of the action and at most the magnitude of the maximum
\* force of its branch.
CommandedForce ==
    \A k \in Latest : Ok(k) =>
        LET m == calls[k].self
            act == calls[k].action
            f == calls[k].ret.info.input_force
        IN  /\ Le(Zero, act) => f = Mul(act, m.maximum_traction_force)
            /\ Lt(act, Zero) => f = Mul(act, m.maximum_braking_force)
            /\ act = Zero => f = Zero
            /\ (Le(Zero, m.maximum_traction_force) /\ Le(Zero, m.maximum_braking_force)) =>
                  /\ Le(Zero, act) => Le(Zero, f) /\ Le(f, m.maximum_traction_force)
                  /\ Lt(act, Zero) => Le(f, Zero) /\ Le(Neg(m.maximum_braking_force), f)

\* a fraction of the braking force was commanded on a train whose two
\* maximum forces differ, and full traction too
CommandedForceWitness ==
    /\ train.maximum_traction_force # train.maximum_braking_force
    /\ \E k \in DOMAIN calls : Ok(k) /\ calls[k].action = Q(-1, 2)
    /\ \E k \in DOMAIN calls : Ok(k) /\ calls[k].action = One

Coasted ==
    /\ Len(calls) >= 1
    /\ train.a_davis_formula = Zero
    /\ train.b_davis_formula = Zero
    /\ train.c_davis_formula = Zero
    /\ \A k \in DOMAIN calls : Ok(k) /\ calls[k].action = Zero

\* (x0 + n*v0*dt, v0) for the n calls of the run
CoastedState ==
    <<Add(X(1), Mul(Q(Len(calls), 1), Mul(V(1), dt))), V(1)>>

\* C6 as stated: after n coasting steps from any (x0, v0) the state is
\* (x0 + n*v0*dt, v0).
Coasting ==
    Coasted => calls[Len(calls)].ret.new_state = CoastedState

\* C6: after n coasting steps from (x0, v0) with v0 at most the speed limit
\* the state is (x0 + n*v0*dt, v0).
CoastingBelowLimit ==
    (Coasted /\ Le(V(1), Limit)) => calls[Len(calls)].ret.new_state = CoastedState

\* three coasting steps of a moving train
CoastingWitness ==
    /\ Coasted
    /\ Len(calls) >= 3
    /\ V(1) # Zero
    /\ Le(V(1), Limit)
    /\ heap[state] = CoastedState

\* C7: a call of step leaves every object that existed before the call as it
\* was (the array passed as state included), and the model constants too;
\* the dictionaries are afterwards what was passed; the state it returns is
\* a new object; a call that raises changes nothing.
NoSideEffects ==
    [][Len(calls') > Len(calls) =>
         /\ \A ref \in DOMAIN heap : heap'[ref] = heap[ref]
         /\ train' = train
         /\ track_info' = calls'[Len(calls')].track_info
         /\ journey_profile' = calls'[Len(calls')].journey_profile
         /\ segment_profile' = calls'[Len(calls')].segment_profile
         /\ pc' = "loop" => state' \notin DOMAIN heap
         /\ pc' = "raised" => heap' = heap /\ state' = state /\ info' = info]_vars

\* a clamped call has returned and the array passed to it is still there
\* with the velocity above the limit that it had
NoSideEffectsWitness ==
    /\ i >= 1
    /\ Lt(Zero, Overshoot(1))
    /\ Lt(Limit, heap[1][2])
    /\ heap[1] = calls[1].state
    /\ heap[2][2] = Limit

FullThrottle ==
    /\ Len(calls) >= 1
    /\ \A k \in DOMAIN calls : Ok(k) /\ calls[k].action = One
    /\ Le(Zero, V(1)) /\ Le(V(1), Limit)
    /\ Le(Zero, train.a_davis_formula)
    /\ Le(Zero, train.b_davis_formula)
    /\ Le(Zero, train.c_davis_formula)
    /\ Lt(Zero, train.train_mass)
    /\ Lt(Add(train.a_davis_formula,
              Add(Mul(train.b_davis_formula, Limit),
                  Mul(train.c_davis_formula, Mul(Limit, Limit)))),
          train.maximum_traction_force)

\* the least gain of velocity of one full-throttle step below the limit:
\* ((maximum_traction_force - resistance at the limit) / mass) * dt
LeastGain ==
    Mul(Div(Sub(train.maximum_traction_force,
                Add(train.a_davis_formula,
                    Add(Mul(train.b_davis_formula, Limit),
                        Mul(train.c_davis_formula, Mul(Limit, Limit))))),
            train.train_mass), dt)

\* C10: under full throttle the velocity never decreases, every step either
\* reaches the limit or gains at least LeastGain > 0 (so the limit is
\* reached after at most (limit - v0) / LeastGain steps, rounded up), a step
\* from the limit returns the limit with speed_overshoot > 0, and the
\* position never decreases.
FullThrottleHolds ==
    FullThrottle =>
        /\ Lt(Zero, LeastGain)
        /\ \A k \in DOMAIN calls :
              /\ Le(V(k), NewV(k))
              /\ Le(X(k), NewX(k))
              /\ NewV(k) = Limit
                 \/ Le(Add(V(1), Mul(Q(k, 1), LeastGain)), NewV(k))
              /\ V(k) = Limit => NewV(k) = Limit /\ Lt(Zero, Overshoot(k))

\* from rest the limit was reached and held on the following step
FullThrottleWitness ==
    /\ FullThrottle
    /\ V(1) = Zero
    /\ \E k \in DOMAIN calls : k > 1 /\ V(k) = Limit /\ NewV(k) = Limit
    /\ Lt(Zero, heap[state][1])

====
